---------------------------- MODULE Spec2Model ----------------------------
(***************************************************************************)
(* The attestation store of hermes (src/hermes/src/store.rs): the write    *)
(* path Store::store_update with its suspension points, the completion     *)
(* channel, the readiness probe, and the Storage / verifier / prover       *)
(* collaborators it calls.                                                 *)
(*                                                                         *)
(* One store_update call is a task.  Every action below is the code that   *)
(* runs between two suspension points (.await) of the call: other calls,   *)
(* the receiver of the channel and the clocks may act in between.          *)
(***************************************************************************)
EXTENDS Integers, Sequences, FiniteSets, TLC

(***************************************************************************)
(* Bounds of the model.                                                    *)
(***************************************************************************)
MaxSlot == 3        \* slots are 1..MaxSlot, VAA sequences 1..MaxSlot+1
CacheSize == 2      \* the cache_size given to Store::new
ChanCap == 1        \* capacity of the completion channel
\* A behaviour spends at most MaxEvents units: one for each store_update call
\* begun, one more when the call begins while another is in flight, one for
\* each advance of a clock and one for the drop of the receiver.
MaxEvents == 6
\* OBSERVED_CACHE_SIZE is 1000 in the source (store.rs:88); the model keeps
\* the constant's role and scales its value so that the set overflows within
\* the sequences of the model.
OBSERVED_CACHE_SIZE == 2

\* store.rs:89, in seconds.
READINESS_STALENESS_THRESHOLD == 30

Tasks == {1, 2}
Slots == 1..MaxSlot
Seqs == 1..(MaxSlot + 1)
\* Option<T>: None is the empty set and Some(x) the set of x alone.
None == {}
Some(x) == {x}
Unwrap(o) == CHOOSE x \in o : TRUE
\* The clocks advance in steps of this duration (seconds).
Advances == {15}

(***************************************************************************)
(* Updates: the inputs of store_update.                                    *)
(***************************************************************************)
\* A raw message of an accumulator batch: the bytes of a PriceFeedMessage,
\* or bytes that do not decode.
RawMessage(feed, time, ok) ==
    [feed_id |-> feed, publish_time |-> time, decodable |-> ok]

\* The batch the accumulator produced at slot s.
Batch(s) ==
    [slot |-> s,
     raw_messages |->
        IF s % 2 = 0
        THEN << RawMessage(1, (s + 1) \div 2, TRUE), RawMessage(2, (s + 1) \div 2, TRUE) >>
        ELSE << RawMessage(1, (s + 1) \div 2, TRUE) >>]

\* A batch for slot 1 holding bytes that do not decode to a Message.
CorruptBatch ==
    [slot |-> 1, raw_messages |-> << RawMessage(1, 1, FALSE) >>]

AccumulatorMessages == {Batch(s) : s \in Slots} \cup {CorruptBatch}

\* The root of the Merkle tree over a list of raw messages: an injective
\* image of the list (the hash is an oracle without collisions).
MerkleRoot(raw_messages) == << "keccak160", raw_messages >>

\* The VAA the accumulator emitter signed with sequence q.  Sequences up to
\* MaxSlot attest the batch of their slot; later sequences attest slot 1 again,
\* committing to the root of CorruptBatch: a root that differs from the one
\* of Batch(1).
SlotOfSeq(q) == IF q <= MaxSlot THEN q ELSE 1
RootOfSeq(q) ==
    IF q <= MaxSlot THEN MerkleRoot(Batch(q).raw_messages)
    ELSE MerkleRoot(CorruptBatch.raw_messages)
GenuineVaa(q) ==
    [sequence |-> q, emitter |-> "accumulator", quorum |-> TRUE,
     slot |-> SlotOfSeq(q), root |-> RootOfSeq(q)]
\* The same payload and sequence sent by another emitter, and with
\* signatures below quorum.
ForeignVaa(q) == [GenuineVaa(q) EXCEPT !.emitter = "other"]
UnsignedVaa(q) == [GenuineVaa(q) EXCEPT !.quorum = FALSE]

Vaas == {GenuineVaa(q) : q \in Seqs} \cup {ForeignVaa(1), UnsignedVaa(1)}

Update ==
    {[kind |-> "Vaa", vaa |-> v] : v \in Vaas}
    \cup {[kind |-> "AccumulatorMessages", acc |-> a] : a \in AccumulatorMessages}

\* The inputs of the queries.  Feed 3 is in no batch.  All the messages of
\* the model are PriceFeedMessages, so the filter of store.rs:260 lets every
\* MessageState through.
PriceIds == {1, 2, 3}
\* Requests for two feeds: the two known ones in both orders, and an unknown
\* one at either place.
PriceIdLists == {<< 1, 2 >>, << 2, 1 >>, << 1, 3 >>, << 3, 2 >>}
Latest == [kind |-> "Latest", time |-> 0]
FirstAfter(t) == [kind |-> "FirstAfter", time |-> t]
RequestTimes == {Latest} \cup {FirstAfter(t) : t \in 0..MaxSlot}

\* Result<T>.
Ok(v) == [ok |-> TRUE, value |-> v]
Err(e) == [ok |-> FALSE, value |-> e]

(***************************************************************************)
(* State.                                                                  *)
(***************************************************************************)
VARIABLES
    accumulator_messages_cache,    \* Storage: slot -> AccumulatorMessages or None
    wormhole_merkle_state_cache,   \* Storage: slot -> WormholeMerkleState or None
    message_cache,                 \* Storage: the MessageStates of the per-feed history
    observed_vaa_seqs,             \* Store.observed_vaa_seqs
    guardian_set,                  \* Store.guardian_set: the known guardian set ids
    update_tx,                     \* the number of notifications in the channel
    rx_open,                       \* the receiver of the channel is alive
    last_completed_update_at,      \* Store.last_completed_update_at: None or an Instant
    now,                           \* Instant::now(), seconds
    wall,                          \* SystemTime::now() since UNIX_EPOCH, seconds
    pc,                            \* per task: where the call is suspended
    frame,                         \* per task: the locals of the call
    ret,                           \* per task: the result of its last returned call and
                                   \* the line of store.rs that returned it
    events,                        \* the units spent, see MaxEvents
    built,                         \* history: per slot, invocations of build_message_states
    wms_writes,                    \* history: per VAA sequence, writes of a WormholeMerkleState
    vaa_notifications,             \* history: per VAA sequence, notifications sent by its calls
    inserted,                      \* history: slots whose MessageStates were inserted
    notified                       \* history: slots for which a notification was sent

storage == << accumulator_messages_cache, wormhole_merkle_state_cache, message_cache >>
clocks == << now, wall >>
history == << built, wms_writes, vaa_notifications, inserted, notified >>
vars == << accumulator_messages_cache, wormhole_merkle_state_cache, message_cache,
           observed_vaa_seqs, guardian_set, update_tx, rx_open,
           last_completed_update_at, now, wall, pc, frame, ret, events, built, wms_writes, vaa_notifications, inserted, notified >>

NoResult == [value |-> "None", line |-> 0]
NoFrame == [update |-> [kind |-> "None"], slot |-> 0, acc |-> None, states |-> << >>]

\* Store::new, and a behaviour's history before any call.
Init ==
    /\ accumulator_messages_cache = [s \in Slots |-> None]
    /\ wormhole_merkle_state_cache = [s \in Slots |-> None]
    /\ message_cache = {}
    /\ observed_vaa_seqs = {}
    /\ guardian_set = {}
    /\ update_tx = 0
    /\ rx_open = TRUE
    /\ last_completed_update_at = None
    /\ now = 0
    /\ wall = 0
    /\ pc = [t \in Tasks |-> "idle"]
    /\ frame = [t \in Tasks |-> NoFrame]
    /\ ret = [t \in Tasks |-> NoResult]
    /\ events = 0
    /\ built = [s \in Slots |-> 0]
    /\ wms_writes = [q \in Seqs |-> 0]
    /\ vaa_notifications = [q \in Seqs |-> 0]
    /\ inserted = {}
    /\ notified = {}

(***************************************************************************)
(* Storage (store/storage.rs), the verifier (store/wormhole.rs) and the    *)
(* prover (store/proof/wormhole_merkle.rs).                                *)
(***************************************************************************)
\* The largest and the smallest element of a non-empty set of numbers.
MaxOf(S) == CHOOSE x \in S : \A y \in S : y <= x
MinOf(S) == CHOOSE x \in S : \A y \in S : x <= y

\* The n largest elements of a set of slots.
RECURSIVE Largest(_, _)
Largest(S, n) ==
    IF n = 0 \/ S = {} THEN {}
    ELSE {MaxOf(S)} \cup Largest(S \ {MaxOf(S)}, n - 1)

SlotsOf(cache) == {m.slot : m \in cache}

\* Storage::store_accumulator_messages: upsert keyed by the batch's slot.
store_accumulator_messages(cache, batch) ==
    [cache EXCEPT ![batch.slot] = Some(batch)]

\* Storage::store_wormhole_merkle_state: upsert keyed by the root's slot.
store_wormhole_merkle_state(cache, state) ==
    [cache EXCEPT ![state.root.slot] = Some(state)]

\* The slots the cache policy retains among those that have MessageStates.
RetainedSlots(cache) ==
    IF Cardinality(SlotsOf(cache)) > CacheSize
    THEN Largest(SlotsOf(cache), CacheSize)
    ELSE SlotsOf(cache)

\* Insertion into the per-feed history: an entry of the same feed, publish
\* time and slot is replaced.
InsertStates(cache, states) ==
    {m \in cache : \A i \in DOMAIN states :
        << m.feed_id, m.publish_time, m.slot >>
            # << states[i].feed_id, states[i].publish_time, states[i].slot >>}
    \cup {states[i] : i \in DOMAIN states}

\* Storage::store_message_states: insert the batch, then enforce the cache
\* policy.
store_message_states(cache, states) ==
    LET all == InsertStates(cache, states)
    IN  {m \in all : m.slot \in RetainedSlots(all)}

\* The partial state of a slot is freed when the slot is evicted from the
\* per-feed history.
FreeEvicted(partial, before, after) ==
    [s \in Slots |-> IF s \in SlotsOf(before) \ SlotsOf(after) THEN None ELSE partial[s]]

\* The per-feed history of a feed: a map ordered by publish_time, then slot.
KeyCache(cache, feed) == {m \in cache : m.feed_id = feed}
TimeBefore(a, b) ==
    \/ a.publish_time < b.publish_time
    \/ a.publish_time = b.publish_time /\ a.slot < b.slot
first_key_value(entries) ==
    CHOOSE m \in entries : \A o \in entries : o = m \/ TimeBefore(m, o)
last_key_value(entries) ==
    CHOOSE m \in entries : \A o \in entries : o = m \/ TimeBefore(o, m)

\* The entry of one feed for a RequestTime.  Latest is the last entry.
\* FirstAfter(t) is the first entry from (t, slot 0) on, and nothing when t is
\* older than the oldest entry of the feed: with slots 900..999 retained, a
\* FirstAfter of 0..899 is an error (spec 8, scenario 3; store.rs:655-666).
retrieve_message_state(cache, feed, request_time) ==
    LET key_cache == KeyCache(cache, feed)
        range == {m \in key_cache : m.publish_time >= request_time.time}
    IN  IF key_cache = {} THEN None
        ELSE IF request_time.kind = "Latest" THEN Some(last_key_value(key_cache))
        ELSE IF request_time.time < first_key_value(key_cache).publish_time THEN None
        ELSE IF range = {} THEN None
        ELSE Some(first_key_value(range))

\* Storage::fetch_message_states: one MessageState per requested feed, in the
\* order of the request, or NotFound for the whole request.
fetch_message_states(cache, ids, request_time) ==
    LET found == [i \in DOMAIN ids |-> retrieve_message_state(cache, ids[i], request_time)]
    IN  IF \E i \in DOMAIN ids : found[i] = None
        THEN Err("NotFound")
        ELSE Ok([i \in DOMAIN ids |-> Unwrap(found[i])])

\* Storage::message_state_keys: the keys of the per-feed history.
message_state_keys(cache) ==
    {[feed_id |-> m.feed_id, type |-> "PriceFeedMessage"] : m \in cache}

\* wormhole::verify_vaa: the guardian set the VAA names is known and its
\* signatures reach quorum under it.  Every VAA of the model names set 0.
verify_vaa(sets, vaa) == 0 \in sets /\ vaa.quorum

\* proof::wormhole_merkle::construct_message_states_proofs: the root of the
\* tree over the raw messages must be the root the VAA committed to; the
\* proof of the message at idx is its path in that tree.
RootMatches(acc, wms) == MerkleRoot(acc.raw_messages) = wms.root.root
construct_message_states_proofs(acc, wms) ==
    [idx \in DOMAIN acc.raw_messages |->
        [root |-> MerkleRoot(acc.raw_messages), index |-> idx,
         leaf |-> acc.raw_messages[idx]]]

\* MerkleRoot::check (store.rs:535-536): the proof is the path of the message
\* in a tree that has this root.
check(root, proof, message) == proof.root = root /\ proof.leaf = message

\* A set of slots in ascending order.
RECURSIVE Ascending(_)
Ascending(S) ==
    IF S = {} THEN << >> ELSE << MinOf(S) >> \o Ascending(S \ {MinOf(S)})

\* proof::wormhole_merkle::construct_update_data: one blob per slot of the
\* selection, in ascending slot order, with the VAA stored for the slot and
\* the (raw message, proof) of every selected message of the slot.
construct_update_data(wms_cache, selection) ==
    LET slots == {selection[i].slot : i \in DOMAIN selection}
        order == Ascending(slots)
        of(s) == SelectSeq(selection, LAMBDA m : m.slot = s)
        blob(s) ==
            [vaa |-> Unwrap(wms_cache[s]).vaa,
             updates |-> [i \in DOMAIN of(s) |->
                 [message |-> of(s)[i].raw_message, proof |-> of(s)[i].proof]]]
    IN  IF \E s \in slots : wms_cache[s] = None
        THEN Err("MissingVaa")
        ELSE Ok([i \in DOMAIN order |-> blob(order[i])])

(***************************************************************************)
(* Store (store.rs).                                                       *)
(***************************************************************************)
\* Mutant of FromAccumulatorEmitter: the emitter is not compared.
FromAnyEmitter(vaa) == TRUE

\* store.rs:130-131: the VAA comes from the accumulator emitter on Pythnet.
FromAccumulatorEmitter(vaa) == vaa.emitter = "accumulator"

\* Mutant of pop_first_while_over: pop_last in the place of pop_first.
RECURSIVE pop_last_while_over(_)
pop_last_while_over(S) ==
    IF Cardinality(S) > OBSERVED_CACHE_SIZE
    THEN pop_last_while_over(S \ {MaxOf(S)})
    ELSE S

\* Mutant of observe: the set is trimmed before the insertion.
observe_trim_first(S, sequence) ==
    IF Cardinality(S) >= OBSERVED_CACHE_SIZE
    THEN (S \ {MinOf(S)}) \cup {sequence}
    ELSE S \cup {sequence}

\* store.rs:152-155: insert the sequence, then pop the smallest elements
\* while the set is larger than OBSERVED_CACHE_SIZE.
RECURSIVE pop_first_while_over(_)
pop_first_while_over(S) ==
    IF Cardinality(S) > OBSERVED_CACHE_SIZE
    THEN pop_first_while_over(S \ {MinOf(S)})
    ELSE S
observe(S, sequence) == pop_first_while_over(S \cup {sequence})

\* Mutant of AllDecode: a raw message that does not decode is let through.
AllDecodeUnchecked(acc) == TRUE

\* store.rs:220: every raw message decodes to a Message.
AllDecode(acc) == \A i \in DOMAIN acc.raw_messages : acc.raw_messages[i].decodable

\* Mutant of message_states: the index of the message in the place of the
\* batch's slot.
message_states_index_as_slot(acc, proofs, current_time) ==
    [idx \in DOMAIN acc.raw_messages |->
        [feed_id |-> acc.raw_messages[idx].feed_id,
         publish_time |-> acc.raw_messages[idx].publish_time,
         raw_message |-> acc.raw_messages[idx],
         proof |-> proofs[idx],
         slot |-> idx,
         received_at |-> current_time]]

\* store.rs:214-233: one MessageState per raw message, in order, all with
\* the batch's slot and the same current_time.
message_states(acc, proofs, current_time) ==
    [idx \in DOMAIN acc.raw_messages |->
        [feed_id |-> acc.raw_messages[idx].feed_id,
         publish_time |-> acc.raw_messages[idx].publish_time,
         raw_message |-> acc.raw_messages[idx],
         proof |-> proofs[idx],
         slot |-> acc.slot,
         received_at |-> current_time]]

\* Mutant of is_ready: <= in the place of <.
is_ready_inclusive ==
    IF last_completed_update_at = None THEN FALSE
    ELSE now - Unwrap(last_completed_update_at) <= READINESS_STALENESS_THRESHOLD

\* store.rs:297-305.
is_ready ==
    IF last_completed_update_at = None THEN FALSE
    ELSE now - Unwrap(last_completed_update_at) < READINESS_STALENESS_THRESHOLD

\* store.rs:266-275: the PriceFeedUpdate of a MessageState.
PriceFeedUpdate(message_state, update_data) ==
    [price_feed |-> [feed_id |-> message_state.feed_id,
                     publish_time |-> message_state.publish_time],
     received_at |-> message_state.received_at,
     slot |-> message_state.slot,
     wormhole_merkle_update_data |-> update_data]

\* store.rs:264-285: the answer built from the MessageStates Storage returned.
price_feeds_with_update_data(messages) ==
    LET single == [i \in DOMAIN messages |->
                      construct_update_data(wormhole_merkle_state_cache, << messages[i] >>)]
        update_data == construct_update_data(wormhole_merkle_state_cache, messages)
    IN  IF \E i \in DOMAIN messages : ~single[i].ok
        THEN Err("MissingVaa")
        ELSE IF ~update_data.ok THEN update_data
        ELSE Ok([price_feeds |-> [i \in DOMAIN messages |->
                                     PriceFeedUpdate(messages[i], single[i].value[1])],
                 wormhole_merkle_update_data |-> update_data.value])

\* Mutant of get_price_feeds_with_update_data: the feeds that are not found
\* are left out of the answer.
get_price_feeds_found(price_ids, request_time) ==
    LET found == SelectSeq(price_ids, LAMBDA id :
                     retrieve_message_state(message_cache, id, request_time) # None)
    IN  price_feeds_with_update_data(
            fetch_message_states(message_cache, found, request_time).value)

\* Mutant of get_price_feeds_with_update_data: the RequestTime is not passed
\* on, Storage is asked for the latest.
get_price_feeds_latest(price_ids, request_time) ==
    LET messages == fetch_message_states(message_cache, price_ids, Latest)
    IN  IF ~messages.ok THEN messages
        ELSE price_feeds_with_update_data(messages.value)

\* store.rs:247-286.
get_price_feeds_with_update_data(price_ids, request_time) ==
    LET messages == fetch_message_states(message_cache, price_ids, request_time)
    IN  IF ~messages.ok THEN messages
        ELSE price_feeds_with_update_data(messages.value)

\* Mutant of get_price_feed_ids: the feeds of the stored batches, complete
\* or not.
get_price_feed_ids_of_batches ==
    UNION {{Unwrap(accumulator_messages_cache[s]).raw_messages[i].feed_id :
               i \in DOMAIN Unwrap(accumulator_messages_cache[s]).raw_messages} :
           s \in {x \in Slots : accumulator_messages_cache[x] # None}}

\* store.rs:288-295.
get_price_feed_ids == {key.feed_id : key \in message_state_keys(message_cache)}

\* The locks of the store (store.rs:94-106; Storage has its own).
Locks == {"storage", "observed_vaa_seqs", "guardian_set", "last_completed_update_at"}

\* Mutant of guards: the write guard of last_completed_update_at is taken
\* before the send and lives across it.
guards_across_send(label) ==
    IF label = "send" THEN {"last_completed_update_at"} ELSE {}

\* The lock guards of a call that are alive while it is suspended at a
\* label.  store_update takes each lock in a temporary of one statement
\* (store.rs:136, 195-198) or in a local of the block store.rs:150-156, with
\* no await after the lock is taken; verify_vaa and Storage take theirs
\* inside the call that is awaited.  No guard lives across a suspension.
guards(label) == {}

\* No suspended call holds the lock: a reader or a writer can take it.
Free(lock) == \A t \in Tasks : lock \notin guards(pc[t])

InFlight == {t \in Tasks : pc[t] # "idle"}

\* A call returns r at a line of store.rs: its locals are dropped.
Return(t, r, line) ==
    /\ pc' = [pc EXCEPT ![t] = "idle"]
    /\ frame' = [frame EXCEPT ![t] = NoFrame]
    /\ ret' = [ret EXCEPT ![t] = [value |-> r, line |-> line]]

Goto(t, label, f) ==
    /\ pc' = [pc EXCEPT ![t] = label]
    /\ frame' = [frame EXCEPT ![t] = f]
    /\ ret' = [ret EXCEPT ![t] = NoResult]

\* A call begins on the first idle task (the tasks are interchangeable).
Begin(t) ==
    /\ pc[t] = "idle"
    /\ \A o \in Tasks : pc[o] = "idle" => t <= o
    /\ events' = events + (IF InFlight = {} THEN 1 ELSE 2)
    /\ events' <= MaxEvents

\* Mutant of store_update_vaa: the sequence is recorded at the duplicate
\* check, before the VAA is verified.
store_update_vaa_observed_unverified(t, u) ==
    /\ u.kind = "Vaa"
    /\ Begin(t)
    /\ IF ~FromAccumulatorEmitter(u.vaa)
       THEN Return(t, "Ok", 133) /\ UNCHANGED observed_vaa_seqs
       ELSE IF u.vaa.sequence \in observed_vaa_seqs
       THEN Return(t, "Ok", 137) /\ UNCHANGED observed_vaa_seqs
       ELSE /\ Goto(t, "verify_vaa", [NoFrame EXCEPT !.update = u])
            /\ observed_vaa_seqs' = observe(observed_vaa_seqs, u.vaa.sequence)
    /\ UNCHANGED << storage, guardian_set, update_tx, rx_open,
                    last_completed_update_at, clocks, history >>

\* store.rs:124-138: store_update(Update::Vaa) up to the verification.  A
\* VAA of another emitter, or one whose sequence is in observed_vaa_seqs, is
\* ignored.
store_update_vaa(t, u) ==
    /\ u.kind = "Vaa"
    /\ Begin(t)
    /\ IF ~FromAccumulatorEmitter(u.vaa) THEN Return(t, "Ok", 133)
       ELSE IF u.vaa.sequence \in observed_vaa_seqs THEN Return(t, "Ok", 137)
       ELSE Goto(t, "verify_vaa", [NoFrame EXCEPT !.update = u])
    /\ UNCHANGED << storage, observed_vaa_seqs, guardian_set, update_tx, rx_open,
                    last_completed_update_at, clocks, history >>

\* Mutant of store_update_verify: the error of verify_vaa is logged and the
\* call goes on.
store_update_verify_unchecked(t) ==
    /\ pc[t] = "verify_vaa"
    /\ pc' = [pc EXCEPT ![t] = "observe"]
    /\ UNCHANGED << storage, observed_vaa_seqs, guardian_set, update_tx, rx_open,
                    frame, ret, last_completed_update_at, clocks, events, history >>

\* store.rs:140-148: verify_vaa; an invalid VAA is logged and ignored.
store_update_verify(t) ==
    /\ pc[t] = "verify_vaa"
    /\ IF verify_vaa(guardian_set, frame[t].update.vaa)
       THEN pc' = [pc EXCEPT ![t] = "observe"] /\ UNCHANGED << frame, ret >>
       ELSE Return(t, "Ok", 146)
    /\ UNCHANGED << storage, observed_vaa_seqs, guardian_set, update_tx, rx_open,
                    last_completed_update_at, clocks, events, history >>

\* store.rs:150-156: under the write lock of observed_vaa_seqs.
store_update_observe(t) ==
    /\ pc[t] = "observe"
    /\ observed_vaa_seqs' = observe(observed_vaa_seqs, frame[t].update.vaa.sequence)
    /\ pc' = [pc EXCEPT ![t] = "store_wormhole_merkle"]
    /\ UNCHANGED << storage, guardian_set, update_tx, rx_open, frame, ret,
                    last_completed_update_at, clocks, events, history >>

\* store.rs:158-165: store_wormhole_merkle_verified_message writes the
\* WormholeMerkleState (the root and the VAA) under the root's slot.
store_update_store_wormhole_merkle(t) ==
    /\ pc[t] = "store_wormhole_merkle"
    /\ LET vaa == frame[t].update.vaa
           state == [root |-> [slot |-> vaa.slot, root |-> vaa.root], vaa |-> vaa]
       IN  /\ wormhole_merkle_state_cache' =
                  store_wormhole_merkle_state(wormhole_merkle_state_cache, state)
           /\ frame' = [frame EXCEPT ![t].slot = vaa.slot]
           /\ wms_writes' = [wms_writes EXCEPT ![vaa.sequence] = @ + 1]
    /\ pc' = [pc EXCEPT ![t] = "fetch_accumulator_messages"]
    /\ UNCHANGED << accumulator_messages_cache, message_cache, observed_vaa_seqs,
                    guardian_set, update_tx, rx_open, ret, last_completed_update_at,
                    clocks, events, built, vaa_notifications, inserted,
                    notified >>

\* store.rs:167-174: store_update(Update::AccumulatorMessages) writes the
\* batch under its slot.
store_update_accumulator_messages(t, u) ==
    /\ u.kind = "AccumulatorMessages"
    /\ Begin(t)
    /\ accumulator_messages_cache' =
           store_accumulator_messages(accumulator_messages_cache, u.acc)
    /\ Goto(t, "fetch_accumulator_messages",
            [NoFrame EXCEPT !.update = u, !.slot = u.acc.slot])
    /\ UNCHANGED << wormhole_merkle_state_cache, message_cache, observed_vaa_seqs,
                    guardian_set, update_tx, rx_open, last_completed_update_at,
                    clocks, history >>

\* Mutant of store_update_fetch_accumulator_messages: the call uses the
\* batch it was given, if any, and does not read the stored one back.
store_update_own_accumulator_messages(t) ==
    /\ pc[t] = "fetch_accumulator_messages"
    /\ frame' = [frame EXCEPT ![t].acc =
           IF frame[t].update.kind = "AccumulatorMessages"
           THEN Some(frame[t].update.acc) ELSE None]
    /\ pc' = [pc EXCEPT ![t] = "fetch_wormhole_merkle_state"]
    /\ UNCHANGED << storage, observed_vaa_seqs, guardian_set, update_tx, rx_open, ret,
                    last_completed_update_at, clocks, events, history >>

\* store.rs:177: read back the batch of the slot.
store_update_fetch_accumulator_messages(t) ==
    /\ pc[t] = "fetch_accumulator_messages"
    /\ frame' = [frame EXCEPT ![t].acc = accumulator_messages_cache[frame[t].slot]]
    /\ pc' = [pc EXCEPT ![t] = "fetch_wormhole_merkle_state"]
    /\ UNCHANGED << storage, observed_vaa_seqs, guardian_set, update_tx, rx_open, ret,
                    last_completed_update_at, clocks, events, history >>

\* store.rs:180-186: both halves of the slot were read back.
BothPresent(acc, wms) == acc # None /\ wms # None

\* Mutant of store_update_fetch_wormhole_merkle_state: with a half absent the
\* call does not return, it goes on to the notification.
store_update_notify_partial(t) ==
    /\ pc[t] = "fetch_wormhole_merkle_state"
    /\ LET acc == frame[t].acc
           wms == wormhole_merkle_state_cache[frame[t].slot]
       IN  IF ~BothPresent(acc, wms)
           THEN /\ pc' = [pc EXCEPT ![t] = "send"]
                /\ UNCHANGED << frame, ret, built >>
           ELSE /\ built' = [built EXCEPT ![frame[t].slot] = @ + 1]
                /\ IF ~RootMatches(Unwrap(acc), Unwrap(wms)) \/ ~AllDecode(Unwrap(acc))
                   THEN Return(t, "Err", 191)
                   ELSE /\ pc' = [pc EXCEPT ![t] = "store_message_states"]
                        /\ frame' = [frame EXCEPT ![t].states =
                               message_states(Unwrap(acc),
                                   construct_message_states_proofs(Unwrap(acc), Unwrap(wms)),
                                   wall)]
                        /\ ret' = ret
    /\ UNCHANGED << storage, observed_vaa_seqs, guardian_set, update_tx, rx_open,
                    last_completed_update_at, clocks, events, wms_writes,
                    vaa_notifications, inserted, notified >>

\* Mutant of store_update_fetch_wormhole_merkle_state: received_at is read
\* from the monotonic clock.
store_update_build_with_monotonic_time(t) ==
    /\ pc[t] = "fetch_wormhole_merkle_state"
    /\ LET acc == frame[t].acc
           wms == wormhole_merkle_state_cache[frame[t].slot]
       IN  IF ~BothPresent(acc, wms)
           THEN Return(t, "Ok", 185) /\ built' = built
           ELSE /\ built' = [built EXCEPT ![frame[t].slot] = @ + 1]
                /\ IF ~RootMatches(Unwrap(acc), Unwrap(wms)) \/ ~AllDecode(Unwrap(acc))
                   THEN Return(t, "Err", 191)
                   ELSE /\ pc' = [pc EXCEPT ![t] = "store_message_states"]
                        /\ frame' = [frame EXCEPT ![t].states =
                               message_states(Unwrap(acc),
                                   construct_message_states_proofs(Unwrap(acc), Unwrap(wms)),
                                   now)]
                        /\ ret' = ret
    /\ UNCHANGED << storage, observed_vaa_seqs, guardian_set, update_tx, rx_open,
                    last_completed_update_at, clocks, events, wms_writes,
                    vaa_notifications, inserted, notified >>

\* store.rs:178-233: read back the WormholeMerkleState of the slot.  With a
\* half absent the call returns Ok.  Otherwise build_message_states is
\* invoked: it fails when the roots differ or a raw message does not decode,
\* and else builds the MessageStates with the wall-clock time.
store_update_fetch_wormhole_merkle_state(t) ==
    /\ pc[t] = "fetch_wormhole_merkle_state"
    /\ LET acc == frame[t].acc
           wms == wormhole_merkle_state_cache[frame[t].slot]
       IN  IF ~BothPresent(acc, wms)
           THEN Return(t, "Ok", 185) /\ built' = built
           ELSE /\ built' = [built EXCEPT ![frame[t].slot] = @ + 1]
                /\ IF ~RootMatches(Unwrap(acc), Unwrap(wms)) \/ ~AllDecode(Unwrap(acc))
                   THEN Return(t, "Err", 191)
                   ELSE /\ pc' = [pc EXCEPT ![t] = "store_message_states"]
                        /\ frame' = [frame EXCEPT ![t].states =
                               message_states(Unwrap(acc),
                                   construct_message_states_proofs(Unwrap(acc), Unwrap(wms)),
                                   wall)]
                        /\ ret' = ret
    /\ UNCHANGED << storage, observed_vaa_seqs, guardian_set, update_tx, rx_open,
                    last_completed_update_at, clocks, events, wms_writes,
                    vaa_notifications, inserted, notified >>

\* Mutant of store_update_store_message_states: the insertion is left for
\* later and the call goes on to the notification.
store_update_store_later(t) ==
    /\ pc[t] = "store_message_states"
    /\ pc' = [pc EXCEPT ![t] = "send"]
    /\ UNCHANGED << storage, observed_vaa_seqs, guardian_set, update_tx, rx_open, frame,
                    ret, last_completed_update_at, clocks, events, history >>

\* Mutant of store_update_store_message_states: the MessageStates are
\* inserted and the cache policy is not run.
store_update_insert_message_states(t) ==
    /\ pc[t] = "store_message_states"
    /\ message_cache' = InsertStates(message_cache, frame[t].states)
    /\ inserted' = inserted \cup {frame[t].slot}
    /\ pc' = [pc EXCEPT ![t] = "send"]
    /\ UNCHANGED << accumulator_messages_cache, wormhole_merkle_state_cache,
                    observed_vaa_seqs, guardian_set, update_tx, rx_open, frame, ret,
                    last_completed_update_at, clocks, events, built,
                    wms_writes, vaa_notifications, notified >>

\* store.rs:237: the MessageStates go to Storage, which enforces the cache
\* policy.
store_update_store_message_states(t) ==
    /\ pc[t] = "store_message_states"
    /\ LET after == store_message_states(message_cache, frame[t].states)
       IN  /\ message_cache' = after
           /\ accumulator_messages_cache' =
                  FreeEvicted(accumulator_messages_cache,
                              InsertStates(message_cache, frame[t].states), after)
           /\ wormhole_merkle_state_cache' =
                  FreeEvicted(wormhole_merkle_state_cache,
                              InsertStates(message_cache, frame[t].states), after)
    /\ inserted' = inserted \cup {frame[t].slot}
    /\ pc' = [pc EXCEPT ![t] = "send"]
    /\ UNCHANGED << observed_vaa_seqs, guardian_set, update_tx, rx_open, frame, ret,
                    last_completed_update_at, clocks, events, built,
                    wms_writes, vaa_notifications, notified >>

\* Mutant of store_update_send: the result of the send is dropped, the call
\* goes on to record the completion.
store_update_send_ignored(t) ==
    /\ pc[t] = "send"
    /\ rx_open => update_tx < ChanCap
    /\ update_tx' = IF rx_open THEN update_tx + 1 ELSE update_tx
    /\ notified' = IF rx_open THEN notified \cup {frame[t].slot} ELSE notified
    /\ vaa_notifications' =
           IF rx_open /\ frame[t].update.kind = "Vaa"
           THEN [vaa_notifications EXCEPT ![frame[t].update.vaa.sequence] = @ + 1]
           ELSE vaa_notifications
    /\ pc' = [pc EXCEPT ![t] = "record"]
    /\ UNCHANGED << storage, observed_vaa_seqs, guardian_set, rx_open, frame, ret,
                    last_completed_update_at, clocks, events, built,
                    wms_writes, inserted >>

\* Mutant of store_update_send: when the send fails the MessageStates of the
\* slot are taken out of the per-feed history again.
store_update_send_rollback(t) ==
    /\ pc[t] = "send"
    /\ IF ~rx_open
       THEN /\ Return(t, "Err", 193)
            /\ message_cache' = {m \in message_cache : m.slot # frame[t].slot}
            /\ UNCHANGED << update_tx, notified, vaa_notifications >>
       ELSE /\ update_tx < ChanCap
            /\ update_tx' = update_tx + 1
            /\ notified' = notified \cup {frame[t].slot}
            /\ vaa_notifications' =
                   IF frame[t].update.kind = "Vaa"
                   THEN [vaa_notifications EXCEPT ![frame[t].update.vaa.sequence] = @ + 1]
                   ELSE vaa_notifications
            /\ pc' = [pc EXCEPT ![t] = "record"]
            /\ UNCHANGED << frame, ret, message_cache >>
    /\ UNCHANGED << accumulator_messages_cache, wormhole_merkle_state_cache,
                    observed_vaa_seqs, guardian_set, rx_open,
                    last_completed_update_at, clocks, events, built,
                    wms_writes, inserted >>

\* store.rs:193: update_tx.send(()).await fails when the receiver is gone
\* and waits while the channel is full.
store_update_send(t) ==
    /\ pc[t] = "send"
    /\ IF ~rx_open
       THEN /\ Return(t, "Err", 193)
            /\ UNCHANGED << update_tx, notified, vaa_notifications >>
       ELSE /\ update_tx < ChanCap
            /\ update_tx' = update_tx + 1
            /\ notified' = notified \cup {frame[t].slot}
            /\ vaa_notifications' =
                   IF frame[t].update.kind = "Vaa"
                   THEN [vaa_notifications EXCEPT ![frame[t].update.vaa.sequence] = @ + 1]
                   ELSE vaa_notifications
            /\ pc' = [pc EXCEPT ![t] = "record"]
            /\ UNCHANGED << frame, ret >>
    /\ UNCHANGED << storage, observed_vaa_seqs, guardian_set, rx_open,
                    last_completed_update_at, clocks, events, built,
                    wms_writes, inserted >>

\* Mutant of store_update_record: the completion is stamped with the time
\* the call read when it built the MessageStates, before the send, and not
\* with an instant read under the write lock.
store_update_record_time_of_build(t) ==
    /\ pc[t] = "record"
    /\ last_completed_update_at' = Some(frame[t].states[1].received_at)
    /\ Return(t, "Ok", 200)
    /\ UNCHANGED << storage, observed_vaa_seqs, guardian_set, update_tx, rx_open,
                    clocks, events, history >>

\* store.rs:195-200: Instant::now() is read with the write lock held.
store_update_record(t) ==
    /\ pc[t] = "record"
    /\ last_completed_update_at' = Some(now)
    /\ Return(t, "Ok", 200)
    /\ UNCHANGED << storage, observed_vaa_seqs, guardian_set, update_tx, rx_open,
                    clocks, events, history >>

\* store.rs:242-245.
update_guardian_set(id) ==
    /\ guardian_set' = guardian_set \cup {id}
    /\ UNCHANGED << storage, observed_vaa_seqs, update_tx, rx_open, pc, frame, ret,
                    last_completed_update_at, clocks, events, history >>

(***************************************************************************)
(* The environment: the receiver of the channel and the clocks.            *)
(***************************************************************************)
\* The consumer takes one notification (store.rs:449).
recv ==
    /\ rx_open
    /\ update_tx > 0
    /\ update_tx' = update_tx - 1
    /\ UNCHANGED << storage, observed_vaa_seqs, guardian_set, rx_open, pc, frame, ret,
                    last_completed_update_at, clocks, events, history >>

\* The receiver is dropped (store.rs:543-546): what the channel held is gone.
drop_receiver ==
    /\ rx_open
    /\ rx_open' = FALSE
    /\ update_tx' = 0
    /\ events < MaxEvents
    /\ events' = events + 1
    /\ UNCHANGED << storage, observed_vaa_seqs, guardian_set, pc, frame, ret,
                    last_completed_update_at, clocks, history >>

\* MockClock::advance (store.rs:552): the monotonic clock.
advance(d) ==
    /\ events < MaxEvents
    /\ events' = events + 1
    /\ now' = now + d
    /\ UNCHANGED << storage, observed_vaa_seqs, guardian_set, update_tx, rx_open, pc,
                    frame, ret, last_completed_update_at, wall, history >>

\* MockClock::advance_system_time (store.rs:551): the wall clock.
advance_system_time(d) ==
    /\ events < MaxEvents
    /\ events' = events + 1
    /\ wall' = wall + d
    /\ UNCHANGED << storage, observed_vaa_seqs, guardian_set, update_tx, rx_open, pc,
                    frame, ret, last_completed_update_at, now, history >>

Next ==
    \/ \E t \in Tasks, u \in Update : store_update_vaa(t, u)
    \/ \E t \in Tasks, u \in Update : store_update_accumulator_messages(t, u)
    \/ \E t \in Tasks : store_update_verify(t)
    \/ \E t \in Tasks : store_update_observe(t)
    \/ \E t \in Tasks : store_update_store_wormhole_merkle(t)
    \/ \E t \in Tasks : store_update_fetch_accumulator_messages(t)
    \/ \E t \in Tasks : store_update_fetch_wormhole_merkle_state(t)
    \/ \E t \in Tasks : store_update_store_message_states(t)
    \/ \E t \in Tasks : store_update_send(t)
    \/ \E t \in Tasks : store_update_record(t)
    \/ update_guardian_set(0)
    \/ recv
    \/ drop_receiver
    \/ \E d \in Advances : advance(d)
    \/ \E d \in Advances : advance_system_time(d)

Spec == Init /\ [][Next]_vars

(***************************************************************************)
(* Properties.                                                             *)
(***************************************************************************)
Quiescent == InFlight = {}

\* The stored halves of slot s are both present, the stored root is the
\* root of the stored batch and every raw message decodes.
Matching(s) ==
    /\ accumulator_messages_cache[s] # None
    /\ wormhole_merkle_state_cache[s] # None
    /\ MerkleRoot(Unwrap(accumulator_messages_cache[s]).raw_messages)
          = Unwrap(wormhole_merkle_state_cache[s]).root.root
    /\ \A i \in DOMAIN Unwrap(accumulator_messages_cache[s]).raw_messages :
          Unwrap(accumulator_messages_cache[s]).raw_messages[i].decodable

VaaUpdates == {u \in Update : u.kind = "Vaa"}

\* C1: for every slot, build_message_states is invoked at most once, under
\* any sequence and interleaving of store_update calls.
C1_BuildAtMostOncePerSlot == \A s \in Slots : built[s] <= 1

\* C2: the calls made with one VAA write the slot's WormholeMerkleState at
\* most once and send at most one completion notification, in any
\* interleaving and from any state of the store.
C2_SameVaaOneTransition ==
    \A q \in Seqs : wms_writes[q] <= 1 /\ vaa_notifications[q] <= 1

\* C3: the slots that have a MessageState in the per-feed history are
\* exactly the cache_size largest slots ever completed.
C3_RetainsLargestSlots ==
    SlotsOf(message_cache) = Largest(inserted, CacheSize)

\* Three slots completed and the call that completed the last has returned.
C3_Witness ==
    /\ Quiescent
    /\ Cardinality(inserted) > CacheSize
    /\ \E s \in inserted : s \notin SlotsOf(message_cache)

\* C4: at most cache_size slots have a MessageState in the per-feed history.
C4_AtMostCacheSizeSlots == Cardinality(SlotsOf(message_cache)) <= CacheSize

\* The history is full and a further slot was completed.
C4_Witness ==
    /\ Cardinality(SlotsOf(message_cache)) = CacheSize
    /\ Cardinality(inserted) = CacheSize + 1

\* C5: when no call is in flight and the receiver is alive, every slot whose
\* matching halves are both stored has had its MessageStates inserted and a
\* completion notification sent: no completion is lost because each call
\* saw only its own half.
C5_CompletionNotLost ==
    (Quiescent /\ rx_open) =>
        \A s \in Slots : Matching(s) => (s \in inserted /\ s \in notified)

\* Two calls overlapped; the first saw one half only and returned at line
\* 185, the second completed the slot.
C5_Witness ==
    /\ Quiescent
    /\ events = 3
    /\ ret[1] = [value |-> "Ok", line |-> 185]
    /\ ret[2] = [value |-> "Ok", line |-> 200]
    /\ \E s \in Slots : Matching(s) /\ s \in inserted /\ s \in notified

\* C6: observed_vaa_seqs never holds more than OBSERVED_CACHE_SIZE
\* sequences, and when a verified VAA's sequence is one more than the set
\* holds, the smallest sequence is the one removed.
C6_ObservedBounded ==
    /\ [](Cardinality(observed_vaa_seqs) <= OBSERVED_CACHE_SIZE)
    /\ [][\A t \in Tasks :
            (/\ pc[t] = "observe"
             /\ pc'[t] # "observe"
             /\ Cardinality(observed_vaa_seqs) = OBSERVED_CACHE_SIZE
             /\ frame[t].update.vaa.sequence \notin observed_vaa_seqs)
            => LET all == observed_vaa_seqs \cup {frame[t].update.vaa.sequence}
               IN  observed_vaa_seqs' = all \ {MinOf(all)}]_vars

\* A written sequence smaller than all the observed ones is not in the full
\* set: it was the one removed.
C6_Witness ==
    /\ Cardinality(observed_vaa_seqs) = OBSERVED_CACHE_SIZE
    /\ \E q \in Seqs :
          /\ wms_writes[q] >= 1
          /\ q \notin observed_vaa_seqs
          /\ \A o \in observed_vaa_seqs : q < o

\* C7: is_ready is false before the first completion, true while less than
\* 30 s of monotonic time have passed since the last recorded completion,
\* and false from 30 s on.
C7_Readiness ==
    /\ inserted = {} => ~is_ready
    /\ last_completed_update_at # None =>
          (is_ready <=>
              now - Unwrap(last_completed_update_at) < READINESS_STALENESS_THRESHOLD)

\* Exactly 30 s after a recorded completion.
C7_Witness ==
    /\ last_completed_update_at # None
    /\ now - Unwrap(last_completed_update_at) = READINESS_STALENESS_THRESHOLD
    /\ ~is_ready

\* C8: the call that completes a slot and finds the stored root different
\* from the root of the stored batch, or a raw message that does not
\* decode, returns an error; it inserts no MessageState, sends no
\* notification and leaves last_completed_update_at as it was.
C8_IntegrityFailure ==
    [][\A t \in Tasks :
        (/\ pc[t] = "fetch_wormhole_merkle_state"
         /\ pc'[t] # pc[t]
         /\ frame[t].acc # None
         /\ wormhole_merkle_state_cache[frame[t].slot] # None
         /\ \/ MerkleRoot(Unwrap(frame[t].acc).raw_messages)
                  # Unwrap(wormhole_merkle_state_cache[frame[t].slot]).root.root
            \/ \E i \in DOMAIN Unwrap(frame[t].acc).raw_messages :
                  ~Unwrap(frame[t].acc).raw_messages[i].decodable)
        => /\ pc'[t] = "idle"
           /\ ret'[t].value = "Err"
           /\ UNCHANGED << message_cache, update_tx, last_completed_update_at,
                           inserted, notified >>]_vars

\* A call returned the error of build_message_states.
C8_Witness == \E t \in Tasks : ret[t] = [value |-> "Err", line |-> 191]

\* C9: store_update with a VAA of another emitter returns Ok at once and
\* changes nothing of the store.
C9_EmitterMismatchIgnored ==
    /\ [](\A t \in Tasks :
            frame[t].update.kind = "Vaa" => frame[t].update.vaa.emitter = "accumulator")
    /\ [][\A t \in Tasks : \A u \in VaaUpdates :
            (u.vaa.emitter # "accumulator" /\ store_update_vaa(t, u))
            => /\ pc'[t] = "idle"
               /\ ret'[t].value = "Ok"
               /\ UNCHANGED << observed_vaa_seqs, storage, update_tx,
                               last_completed_update_at >>]_vars

\* A call returned at the emitter check.
C9_Witness == \E t \in Tasks : ret[t] = [value |-> "Ok", line |-> 133]

\* The verifier rejects the VAA: signatures below quorum, or no guardian
\* set known.
Rejected(vaa) == ~vaa.quorum \/ guardian_set = {}

\* C10: store_update with a VAA of the accumulator emitter that the
\* verifier rejects returns Ok; the call never gets past the verification,
\* so it writes no WormholeMerkleState, creates no MessageState and sends no
\* notification.
C10_UnverifiableIgnored ==
    /\ [](\A t \in Tasks :
            (frame[t].update.kind = "Vaa" /\ ~frame[t].update.vaa.quorum)
            => pc[t] = "verify_vaa")
    /\ [][\A t \in Tasks :
            (/\ pc[t] = "verify_vaa"
             /\ pc'[t] # pc[t]
             /\ Rejected(frame[t].update.vaa))
            => /\ pc'[t] = "idle"
               /\ ret'[t].value = "Ok"
               /\ UNCHANGED << observed_vaa_seqs, storage, update_tx,
                               last_completed_update_at, history >>]_vars

\* With the guardian set known, a call returned at the verification: the
\* signatures were below quorum.
C10_Witness ==
    /\ guardian_set # {}
    /\ \E t \in Tasks : ret[t] = [value |-> "Ok", line |-> 146]

\* C11: every MessageState of the per-feed history has a proof that verifies
\* its raw message under the root of the WormholeMerkleState now stored for
\* its slot, also after a later VAA for the slot was ingested.
C11_ProofVerifiesUnderStoredRoot ==
    \A m \in message_cache :
        /\ wormhole_merkle_state_cache[m.slot] # None
        /\ check(Unwrap(wormhole_merkle_state_cache[m.slot]).root.root,
                 m.proof, m.raw_message)

\* The retained entries of a feed a RequestTime asks among: all of them for
\* Latest, those published at t or later for FirstAfter(t).
Candidates(feed, request_time) ==
    {m \in message_cache :
        /\ m.feed_id = feed
        /\ request_time.kind = "FirstAfter" => m.publish_time >= request_time.time}

\* C12: a query fails as a whole, with no partial result, when a requested
\* feed has no retained entry for the RequestTime; a query that succeeds
\* returns one PriceFeedUpdate per requested feed id, in the order of the
\* request.
C12_AllOrNothing ==
    \A price_ids \in PriceIdLists, request_time \in RequestTimes :
        LET r == get_price_feeds_with_update_data(price_ids, request_time)
        IN  /\ (\E i \in DOMAIN price_ids : Candidates(price_ids[i], request_time) = {})
                   => r = Err("NotFound")
            /\ r.ok =>
                   /\ Len(r.value.price_feeds) = Len(price_ids)
                   /\ \A i \in DOMAIN price_ids :
                          r.value.price_feeds[i].price_feed.feed_id = price_ids[i]

\* With slots 2 and 3 retained: both feeds are found in the order asked, and
\* a request for both fails for a time only feed 1 has an entry for.
C12_Witness ==
    /\ get_price_feeds_with_update_data(<< 2, 1 >>, Latest).ok
    /\ get_price_feeds_with_update_data(<< 1 >>, FirstAfter(2)).ok
    /\ ~get_price_feeds_with_update_data(<< 1, 2 >>, FirstAfter(2)).ok

\* The entry a RequestTime selects among candidates: for Latest the greatest
\* publish_time and among equals the greatest slot, for FirstAfter the
\* smallest publish_time and among equals the smallest slot.
Selected(candidates, request_time) ==
    CHOOSE m \in candidates : \A o \in candidates :
        IF request_time.kind = "Latest"
        THEN \/ o.publish_time < m.publish_time
             \/ o.publish_time = m.publish_time /\ o.slot <= m.slot
        ELSE \/ o.publish_time > m.publish_time
             \/ o.publish_time = m.publish_time /\ o.slot >= m.slot

\* The query for one feed answers with the entry selected among the
\* candidates, and with NotFound when there is none.
Answers(feed, request_time, candidates) ==
    LET r == get_price_feeds_with_update_data(<< feed >>, request_time)
    IN  IF candidates = {} THEN r = Err("NotFound")
        ELSE /\ r.ok
             /\ r.value.price_feeds[1].price_feed.feed_id = feed
             /\ r.value.price_feeds[1].slot = Selected(candidates, request_time).slot
             /\ r.value.price_feeds[1].price_feed.publish_time
                    = Selected(candidates, request_time).publish_time

\* FirstAfter(t) with t earlier than every retained publish_time of the feed.
OlderThanOldest(feed, request_time) ==
    /\ request_time.kind = "FirstAfter"
    /\ \A m \in KeyCache(message_cache, feed) : request_time.time < m.publish_time

\* C13 as claimed: a query returns, for the requested feed, the retained
\* entry with the greatest publish_time (then greatest slot) for Latest and
\* the one with the smallest publish_time >= t (then smallest slot) for
\* FirstAfter(t); NotFound when the feed has no retained entry, or none
\* published at t or later.
C13_SelectedByRequestTime ==
    \A feed \in PriceIds, request_time \in RequestTimes :
        Answers(feed, request_time, Candidates(feed, request_time))

\* C13 amended: as claimed, and FirstAfter(t) is NotFound also when t is
\* earlier than every retained publish_time of the feed.
C13_SelectedUnlessOlderThanOldest ==
    \A feed \in PriceIds, request_time \in RequestTimes :
        Answers(feed, request_time,
                IF OlderThanOldest(feed, request_time) THEN {}
                ELSE Candidates(feed, request_time))

\* Slots 1 and 2 are retained and hold feed 1 with the same publish_time:
\* Latest answers with slot 2, FirstAfter(1) with slot 1, and FirstAfter(0)
\* is not found.
C13_Witness ==
    /\ get_price_feeds_with_update_data(<< 1 >>, Latest).ok
    /\ get_price_feeds_with_update_data(<< 1 >>, Latest).value.price_feeds[1].slot = 2
    /\ get_price_feeds_with_update_data(<< 1 >>, FirstAfter(1)).ok
    /\ get_price_feeds_with_update_data(<< 1 >>, FirstAfter(1)).value.price_feeds[1].slot = 1
    /\ ~get_price_feeds_with_update_data(<< 1 >>, FirstAfter(0)).ok

\* C14: a call that has completed a slot and whose send on the completion
\* channel finds the receiver dropped returns an error to its caller.
C14_SendFailureReturnsError ==
    [][\A t \in Tasks :
        (pc[t] = "send" /\ ~rx_open /\ pc'[t] # pc[t])
        => (pc'[t] = "idle" /\ ret'[t].value = "Err")]_vars

\* The receiver is gone and a call returned the error of the send.
C14_Witness ==
    /\ ~rx_open
    /\ \E t \in Tasks : ret[t] = [value |-> "Err", line |-> 193]

\* The feed ids of the batch of a slot.
FeedsOfSlot(s) ==
    {Batch(s).raw_messages[i].feed_id : i \in DOMAIN Batch(s).raw_messages}

\* C15: get_price_feed_ids returns the feed ids that have a MessageState in
\* the per-feed history and no other: the feeds of the batches of the
\* completed slots that are retained.
C15_PriceFeedIds ==
    /\ get_price_feed_ids = {f \in PriceIds : \E m \in message_cache : m.feed_id = f}
    /\ get_price_feed_ids = UNION {FeedsOfSlot(s) : s \in Largest(inserted, CacheSize)}

\* A slot with feed 1 is complete; the batch of slot 2, which holds feed 2,
\* is stored but slot 2 is not complete: feed 1 alone is returned.
C15_Witness ==
    /\ accumulator_messages_cache[2] # None
    /\ 2 \notin inserted
    /\ get_price_feed_ids = {1}

\* C16: the MessageStates a completion builds all carry the wall-clock time
\* of the build as received_at; the per-feed history takes them as built;
\* and a query returns the received_at of the stored entry, whatever the
\* clocks show at the time of the query.
C16_ReceivedAt ==
    /\ [][\A t \in Tasks :
            (pc[t] = "fetch_wormhole_merkle_state" /\ pc'[t] = "store_message_states")
            => \A i \in DOMAIN frame'[t].states :
                   frame'[t].states[i].received_at = wall]_vars
    /\ [][\A m \in message_cache' \ message_cache :
            \E t \in Tasks :
                /\ pc[t] = "store_message_states"
                /\ pc'[t] = "send"
                /\ \E i \in DOMAIN frame[t].states : frame[t].states[i] = m]_vars
    /\ [](\A feed \in PriceIds, request_time \in RequestTimes :
            LET r == get_price_feeds_with_update_data(<< feed >>, request_time)
            IN  r.ok =>
                    \E m \in message_cache :
                        /\ m.feed_id = feed
                        /\ m.slot = r.value.price_feeds[1].slot
                        /\ m.publish_time = r.value.price_feeds[1].price_feed.publish_time
                        /\ m.received_at = r.value.price_feeds[1].received_at)

\* The wall clock was advanced, a slot completed, and the wall clock was
\* advanced again; the monotonic clock was not: the query returns the time
\* of the build.
C16_Witness ==
    /\ wall = 30
    /\ now = 0
    /\ get_price_feeds_with_update_data(<< 1 >>, Latest).ok
    /\ get_price_feeds_with_update_data(<< 1 >>, Latest).value.price_feeds[1].received_at = 15

\* C17: a call creates MessageStates for a slot only when it read both the
\* AccumulatorMessages and the WormholeMerkleState of the slot back from
\* storage; a call that finds a half absent returns Ok, creates no
\* MessageState, sends no notification and leaves last_completed_update_at
\* as it was.
C17_OnlyWhenBothPresent ==
    /\ [][\A t \in Tasks :
            (frame[t].states = << >> /\ frame'[t].states # << >>)
            => /\ frame[t].acc # None
               /\ wormhole_merkle_state_cache[frame[t].slot] # None
               /\ \A i \in DOMAIN frame'[t].states :
                      frame'[t].states[i].slot = frame[t].slot]_vars
    /\ [][\A t \in Tasks :
            (/\ pc[t] = "fetch_wormhole_merkle_state"
             /\ pc'[t] # pc[t]
             /\ \/ frame[t].acc = None
                \/ wormhole_merkle_state_cache[frame[t].slot] = None)
            => /\ pc'[t] = "idle"
               /\ ret'[t] = [value |-> "Ok", line |-> 185]
               /\ UNCHANGED << message_cache, update_tx, last_completed_update_at,
                               built, inserted, notified >>]_vars
    /\ [](\A t \in Tasks : pc[t] \in {"store_message_states", "send", "record"}
            => frame[t].states # << >>)

\* A call found a half absent and returned; nothing was completed.
C17_Witness ==
    /\ \E t \in Tasks : ret[t] = [value |-> "Ok", line |-> 185]
    /\ \E s \in Slots :
          (accumulator_messages_cache[s] = None) # (wormhole_merkle_state_cache[s] = None)
    /\ inserted = {}
    /\ notified = {}
    /\ last_completed_update_at = None

C19_TrimmedReadmitted ==
    /\ [][\A t \in Tasks : \A u \in VaaUpdates :
            (/\ store_update_vaa(t, u)
             /\ u.vaa.emitter = "accumulator"
             /\ wms_writes[u.vaa.sequence] >= 1
             /\ u.vaa.sequence \notin observed_vaa_seqs)
            => pc'[t] = "verify_vaa"]_vars
    /\ [][\A t \in Tasks :
            (pc[t] = "store_wormhole_merkle" /\ pc'[t] # pc[t])
            => /\ wormhole_merkle_state_cache'[frame[t].update.vaa.slot] # None
               /\ Unwrap(wormhole_merkle_state_cache'[frame[t].update.vaa.slot]).vaa
                      = frame[t].update.vaa
               /\ wms_writes'[frame[t].update.vaa.sequence]
                      = wms_writes[frame[t].update.vaa.sequence] + 1
               /\ pc'[t] = "fetch_accumulator_messages"]_vars
    /\ [][\A t \in Tasks :
            (/\ pc[t] = "observe"
             /\ pc'[t] # "observe"
             /\ Cardinality(observed_vaa_seqs) = OBSERVED_CACHE_SIZE
             /\ \A o \in observed_vaa_seqs : frame[t].update.vaa.sequence < o)
            => observed_vaa_seqs' = observed_vaa_seqs]_vars

\* Four calls, one after the other: the VAAs 2 and 3 fill the set, the VAA
\* 1 is not recorded, and its replay is written again.
C19_Witness ==
    /\ Quiescent
    /\ events = 4
    /\ observed_vaa_seqs = {2, 3}
    /\ wms_writes[1] = 2
    /\ wms_writes[2] = 1
    /\ wms_writes[3] = 1

\* C20: within a completion the MessageStates are inserted before the
\* notification is sent, and the notification is sent before
\* last_completed_update_at is recorded.  So a notification in the channel
\* is of a slot whose MessageStates were inserted, and
\* last_completed_update_at is set only after a notification was sent.
C20_CompletionOrder ==
    /\ [](/\ notified \subseteq inserted
          /\ \A t \in Tasks :
                /\ pc[t] = "send" => frame[t].slot \in inserted
                /\ pc[t] = "record" => frame[t].slot \in notified
          /\ update_tx > 0 => notified # {}
          /\ last_completed_update_at # None => notified # {})
    /\ [][last_completed_update_at' # last_completed_update_at
            => \E t \in Tasks :
                   /\ pc[t] = "record"
                   /\ frame[t].slot \in notified
                   /\ frame[t].slot \in inserted]_vars
    /\ [][update_tx' > update_tx
            => \E t \in Tasks :
                   /\ pc[t] = "send"
                   /\ frame[t].slot \in inserted
                   /\ last_completed_update_at' = last_completed_update_at]_vars

\* A completion was notified and recorded; the next one has inserted its
\* MessageStates and has not sent its notification yet.
C20_Witness ==
    /\ last_completed_update_at # None
    /\ Cardinality(notified) = 1
    /\ \E t \in Tasks :
          /\ pc[t] = "send"
          /\ frame[t].slot \in inserted
          /\ frame[t].slot \notin notified

\* C21: observed_vaa_seqs only ever takes the sequence of a VAA of the
\* accumulator emitter that passed verify_vaa.  A call reaches the insertion
\* only with such a VAA; the submission of a VAA of another emitter, and the
\* rejection of a VAA by the verifier, leave the set as it was; and a VAA is
\* ignored as a duplicate only when a verified VAA of the accumulator emitter
\* with its sequence went through the insertion before.
C21_ObservedOnlyVerified ==
    /\ [](\A t \in Tasks :
            pc[t] \in {"observe", "store_wormhole_merkle"}
            => /\ frame[t].update.vaa.emitter = "accumulator"
               /\ verify_vaa(guardian_set, frame[t].update.vaa))
    /\ [][\A q \in observed_vaa_seqs' \ observed_vaa_seqs :
            \E t \in Tasks :
                /\ pc[t] = "observe"
                /\ pc'[t] = "store_wormhole_merkle"
                /\ frame[t].update.vaa.sequence = q
                /\ frame[t].update.vaa.emitter = "accumulator"
                /\ verify_vaa(guardian_set, frame[t].update.vaa)]_vars
    /\ [][\A t \in Tasks : \A u \in VaaUpdates :
            (store_update_vaa(t, u) /\ (u.vaa.emitter # "accumulator" \/ Rejected(u.vaa)))
            => observed_vaa_seqs' = observed_vaa_seqs]_vars
    /\ [][\A t \in Tasks :
            (pc[t] = "verify_vaa" /\ pc'[t] # pc[t] /\ Rejected(frame[t].update.vaa))
            => observed_vaa_seqs' = observed_vaa_seqs]_vars
    /\ [][\A t \in Tasks : \A u \in VaaUpdates :
            (store_update_vaa(t, u) /\ ret'[t] = [value |-> "Ok", line |-> 137])
            => \/ wms_writes[u.vaa.sequence] >= 1
               \/ \E o \in Tasks :
                     /\ pc[o] = "store_wormhole_merkle"
                     /\ frame[o].update.vaa.sequence = u.vaa.sequence]_vars

\* With the guardian set known, the VAA of sequence 1 whose signatures are
\* below quorum was ignored at the verification, the VAA of sequence 1 of
\* another emitter was ignored at the emitter check, and the genuine VAA of
\* sequence 1 was admitted: its sequence is in the set and its
\* WormholeMerkleState was written.
C21_Witness ==
    /\ guardian_set # {}
    /\ ret[1] = [value |-> "Ok", line |-> 146]
    /\ ret[2] = [value |-> "Ok", line |-> 133]
    /\ observed_vaa_seqs = {1}
    /\ wms_writes[1] = 1

\* C22: a call whose send of the completion notification fails has inserted
\* the MessageStates of its slot before, and its error return takes nothing
\* back: Storage and last_completed_update_at are as they were before the
\* return, and while the slot is retained every message of the batch has its
\* entry in the per-feed history and is served by the queries for its feed
\* (the queries read Storage, which the return leaves as it was).
C22_SendFailureKeepsState ==
    [][\A t \in Tasks :
        (pc[t] = "send" /\ ~rx_open /\ pc'[t] # pc[t])
        => /\ ret'[t] = [value |-> "Err", line |-> 193]
           /\ frame[t].states # << >>
           /\ frame[t].slot \in inserted
           /\ UNCHANGED << storage, last_completed_update_at >>
           /\ frame[t].slot \in SlotsOf(message_cache)
              => \A i \in DOMAIN frame[t].states :
                    LET k == frame[t].states[i]
                        at == get_price_feeds_with_update_data(
                                  << k.feed_id >>, FirstAfter(k.publish_time))
                        latest == get_price_feeds_with_update_data(<< k.feed_id >>, Latest)
                    IN  /\ \E m \in message_cache' :
                              /\ m.slot = k.slot
                              /\ m.feed_id = k.feed_id
                              /\ m.publish_time = k.publish_time
                              /\ m.raw_message = k.raw_message
                        /\ at.ok
                        /\ at.value.price_feeds[1].price_feed.publish_time = k.publish_time
                        /\ latest.ok
                        /\ latest.value.price_feeds[1].price_feed.publish_time
                               >= k.publish_time]_vars

\* Slot 1 was completed and recorded at instant 0; the clock went on, the
\* receiver was dropped, and the completion of slot 2 failed at the send:
\* slot 2 is stored and served, and last_completed_update_at is still 0.
C22_Witness ==
    /\ ~rx_open
    /\ \E t \in Tasks : ret[t] = [value |-> "Err", line |-> 193]
    /\ now = 15
    /\ last_completed_update_at = Some(0)
    /\ SlotsOf(message_cache) = {1, 2}
    /\ get_price_feeds_with_update_data(<< 2 >>, Latest).ok
    /\ get_price_feeds_with_update_data(<< 2 >>, Latest).value.price_feeds[1].slot = 2

\* C23: last_completed_update_at is monotone.  Once set it is never None
\* again and its value never decreases, whatever the order in which
\* concurrent completions record it; it is written only by a call that
\* records its completion, with the instant of the write, so it is never
\* ahead of the clock and the store is ready right after every write.
C23_LastCompletedMonotone ==
    /\ [](last_completed_update_at # None => Unwrap(last_completed_update_at) <= now)
    /\ [][last_completed_update_at # None
            => /\ last_completed_update_at' # None
               /\ Unwrap(last_completed_update_at') >= Unwrap(last_completed_update_at)]_vars
    /\ [][last_completed_update_at' # last_completed_update_at
            => /\ \E t \in Tasks : pc[t] = "record" /\ pc'[t] = "idle"
               /\ last_completed_update_at' = Some(now)
               /\ is_ready']_vars
    /\ [][(\E t \in Tasks : pc[t] = "record" /\ pc'[t] = "idle")
            => (is_ready => is_ready')]_vars

\* Two calls completed concurrently.  One recorded its completion at instant
\* 0; the clock went on; the other, which built its MessageStates before the
\* first one recorded, is about to record its own.
C23_Witness ==
    /\ last_completed_update_at = Some(0)
    /\ now = 15
    /\ \E t, o \in Tasks :
          /\ ret[o] = [value |-> "Ok", line |-> 200]
          /\ pc[t] = "record"
          /\ frame[t].states[1].received_at = 0
          /\ wall = 15

=============================================================================
